---- MODULE Spec2Model ----
(***************************************************************************)
(* Model of substrate-sidecar-tests.py: a harness that compares a          *)
(* Substrate node's RPC answers with the answers of a Sidecar HTTP API.    *)
(*                                                                         *)
(* Four specifications share the module:                                   *)
(*   SpecFetch  the two fetchers, _fetch_sidecar_data step by step         *)
(*   SpecNorm   the pallet / method name normalisation of _check_block     *)
(*   SpecBlock  _check_block on one block                                  *)
(*   Spec       main -> run_tests -> the four checks -> exit code          *)
(***************************************************************************)
EXTENDS Integers, Sequences, FiniteSets, TLC

VARIABLES
    \* ---- _fetch_sidecar_data / _fetch_substrate_rpc (SpecFetch)
    retry_attempts,   \* config.retry_attempts
    fpc,              \* position in _fetch_sidecar_data
    attempt,          \* the loop variable of `for attempt in range(...)`
    requests,         \* number of requests.get calls issued
    sleeps,           \* number of time.sleep(2) calls made
    responses,        \* what the sidecar answered, one entry per request
    fresult,          \* the returned pair <<value, error>>
    rpc_response,     \* what the node answered to rpc_request
    rresult,          \* the pair _fetch_substrate_rpc returned
    \* ---- name normalisation (SpecNorm)
    npc, sidecar_name, rpc_name, name_cmp,
    \* ---- _check_block on one block (SpecBlock)
    bpc, b_sidecar, b_rpc, comparisons, logged, b_return,
    \* ---- main / run_tests / the four checks (Spec)
    pc,               \* position in main / run_tests
    num_blocks,       \* config.num_blocks_to_test
    connected,        \* _connect_substrate returned True
    test_results,     \* run_tests' list of (name, result)
    run_return,       \* what run_tests returned
    exit_code,        \* the argument of sys.exit
    exc,              \* the exception in flight, if any
    head_fetched,     \* test_last_n_blocks_transactions obtained the head
    head_number, i, all_passed, total_transactions, total_extrinsics,
    block_number,     \* locals of test_last_n_blocks_transactions
    validated,        \* the identifiers _check_block was called with
    block_log         \* per iterated block: what happened to it

fetchVars == <<retry_attempts, fpc, attempt, requests, sleeps, responses,
               fresult, rpc_response, rresult>>
normVars  == <<npc, sidecar_name, rpc_name, name_cmp>>
blockVars == <<bpc, b_sidecar, b_rpc, comparisons, logged, b_return>>
runVars   == <<pc, num_blocks, connected, test_results, run_return,
               exit_code, exc, head_fetched, head_number, i, all_passed,
               total_transactions, total_extrinsics, block_number,
               validated, block_log>>
vars == <<fetchVars, normVars, blockVars, runVars>>

(***************************************************************************)
(* Bounds of the model.                                                    *)
(***************************************************************************)
MaxRetry  == 3    \* retry_attempts ranges over 0..MaxRetry
MaxLen    == 2    \* longest pallet / method name of SpecNorm
MaxExt    == 2    \* longest extrinsic list of a block
MaxBlocks == 2    \* num_blocks_to_test ranges over 0..MaxBlocks
MaxHead   == 1    \* the sidecar's head height ranges over 0..MaxHead

(***************************************************************************)
(* Python values.  None is a record of its own; every other value is a     *)
(* record too, so that == between values of different kinds is FALSE.      *)
(***************************************************************************)
None == [t |-> "none"]
PyInt(n) == [t |-> "int", v |-> n]
PyStr(s) == [t |-> "str", v |-> s]
PyEq(a, b) == a.t = b.t /\ (a.t = "none" \/ a.v = b.v)

Last(s) == s[Len(s)]

(***************************************************************************)
(* _fetch_sidecar_data                                                     *)
(***************************************************************************)
JsonObject == [t |-> "dict", id |-> "body"]

\* What one requests.get can bring: a 200 with a body that parses (to an
\* object or to null), a 200 whose body does not parse (response.json()
\* raises), another status with its text, or a transport exception.
SidecarResponses ==
    { [kind |-> "http", status |-> 200, json |-> JsonObject],
      [kind |-> "http", status |-> 200, json |-> None],
      [kind |-> "badjson", status |-> 200, text |-> "Expecting value"],
      [kind |-> "http", status |-> 500, text |-> "boom"],
      [kind |-> "http", status |-> 500, text |-> "bang"],
      [kind |-> "http", status |-> 404, text |-> "boom"],
      [kind |-> "raise", status |-> 0, text |-> "timed out"] }

\* error_msg = f"HTTP {response.status_code}: {response.text}"
HttpErrorMsg(r) == [t |-> "str", status |-> r.status, text |-> r.text]
\* str(e)
ExcMsg(r) == [t |-> "str", status |-> 0, text |-> r.text]
MaxRetriesExceeded == [t |-> "str", status |-> 0, text |-> "Max retries exceeded"]

\* if attempt > 0: time.sleep(2)
ShouldSleepM(a) == TRUE
ShouldSleep(a) == a > 0

\* if attempt == self.config.retry_attempts - 1
IsLastAttemptM(a, r) == a = r
IsLastAttempt(a, r) == a = r - 1

\* for attempt in range(retry_attempts): one more iteration, or fall out of
\* the loop to `return None, "Max retries exceeded"`.
FetchIterate ==
    /\ fpc = "for"
    /\ IF attempt < retry_attempts
       THEN /\ sleeps' = IF ShouldSleep(attempt) THEN sleeps + 1 ELSE sleeps
            /\ fpc' = "get"
            /\ UNCHANGED fresult
       ELSE /\ fresult' = <<None, MaxRetriesExceeded>>
            /\ fpc' = "done"
            /\ UNCHANGED sleeps
    /\ UNCHANGED <<retry_attempts, attempt, requests, responses,
                   rpc_response, rresult>>
    /\ UNCHANGED <<normVars, blockVars, runVars>>

\* The failing branch of one iteration: return the error on the last
\* attempt, otherwise go round the loop again.
FetchFail(msg) ==
    IF IsLastAttempt(attempt, retry_attempts)
    THEN /\ fresult' = <<None, msg>>
         /\ fpc' = "done"
         /\ UNCHANGED attempt
    ELSE /\ attempt' = attempt + 1
         /\ fpc' = "for"
         /\ UNCHANGED fresult

\* response = requests.get(...); the status test; response.json()
FetchRequest ==
    /\ fpc = "get"
    /\ \E r \in SidecarResponses :
        /\ requests' = requests + 1
        /\ responses' = Append(responses, r)
        /\ IF r.kind = "http" /\ r.status = 200
           THEN /\ fresult' = <<r.json, None>>
                /\ fpc' = "done"
                /\ UNCHANGED attempt
           ELSE IF r.kind = "http"
           THEN FetchFail(HttpErrorMsg(r))
           ELSE FetchFail(ExcMsg(r))
    /\ UNCHANGED <<retry_attempts, sleeps, rpc_response, rresult>>
    /\ UNCHANGED <<normVars, blockVars, runVars>>

(***************************************************************************)
(* _fetch_substrate_rpc                                                    *)
(***************************************************************************)
\* What rpc_request can bring: a response with a result, with a null
\* result, without a `result` key, or an exception.
RpcResponses ==
    { [kind |-> "ok", result |-> JsonObject],
      [kind |-> "ok", result |-> None],
      [kind |-> "noresult", result |-> None],
      [kind |-> "raise", result |-> None] }

RpcErrorMsg == [t |-> "str", status |-> 0, text |-> "rpc failed"]

\* result.get('result'), None   /   None, str(e)
FetchSubstrateRpc(r) ==
    IF r.kind = "raise" THEN <<None, RpcErrorMsg>> ELSE <<r.result, None>>

RpcRequest ==
    /\ rresult = <<>>
    /\ \E r \in RpcResponses :
        /\ rpc_response' = r
        /\ rresult' = FetchSubstrateRpc(r)
    /\ UNCHANGED <<retry_attempts, fpc, attempt, requests, sleeps, responses,
                   fresult>>
    /\ UNCHANGED <<normVars, blockVars, runVars>>

(***************************************************************************)
(* Pallet / method names are sequences of one-character strings.           *)
(***************************************************************************)
UpperLetters ==
    <<"A", "B", "C", "D", "E", "F", "G", "H", "I", "J", "K", "L", "M", "N",
      "O", "P", "Q", "R", "S", "T", "U", "V", "W", "X", "Y", "Z">>
LowerLetters ==
    <<"a", "b", "c", "d", "e", "f", "g", "h", "i", "j", "k", "l", "m", "n",
      "o", "p", "q", "r", "s", "t", "u", "v", "w", "x", "y", "z">>

LowerChar(c) ==
    IF \E k \in 1..Len(UpperLetters) : UpperLetters[k] = c
    THEN LowerLetters[CHOOSE k \in 1..Len(UpperLetters) : UpperLetters[k] = c]
    ELSE c

\* str.lower()
Lower(s) == [k \in 1..Len(s) |-> LowerChar(s[k])]

NotUnderscore(c) == c # "_"
\* str.replace("_", "")
StripUnderscores(s) == SelectSeq(s, NotUnderscore)

\* sidecar_pallet.lower()  /  sidecar_method_name.lower()
NormSidecarName(s) == Lower(s)
\* rpc_call_module.lower().replace("_", "")
NormRpcName(s) == StripUnderscores(Lower(s))

\* One appended triple (field_name, sidecar_value, rpc_value).
Comparison(label, sv, rv) == [label |-> label, sidecar |-> sv, rpc |-> rv]

\* ("Extrinsics - Pallet" | "Extrinsics - Method", ..., ...)
NameComparison(label, s, r) ==
    Comparison(label, PyStr(NormSidecarName(s)), PyStr(NormRpcName(r)))

\* if sidecar_value == rpc_value
Matches(c) == PyEq(c.sidecar, c.rpc)

(***************************************************************************)
(* SpecNorm: the name comparison on arbitrary short names                  *)
(***************************************************************************)
NameAlphabet == {"a", "A", "_"}
Names == UNION { [1..n -> NameAlphabet] : n \in 0..MaxLen }

NormCompare ==
    /\ npc = "start"
    /\ name_cmp' = NameComparison("Extrinsics - Pallet", sidecar_name, rpc_name)
    /\ npc' = "done"
    /\ UNCHANGED <<sidecar_name, rpc_name>>
    /\ UNCHANGED <<fetchVars, blockVars, runVars>>

(***************************************************************************)
(* Numbers: int(x) of a decimal string, int(x, 16) of a "0x..." string     *)
(***************************************************************************)
HexDigits ==
    <<"0", "1", "2", "3", "4", "5", "6", "7", "8", "9",
      "a", "b", "c", "d", "e", "f">>
DigitValue(c) == (CHOOSE k \in 1..Len(HexDigits) : HexDigits[k] = c) - 1

RECURSIVE ParseDigits(_, _)
ParseDigits(s, base) ==
    IF s = <<>> THEN 0
    ELSE ParseDigits(SubSeq(s, 1, Len(s) - 1), base) * base + DigitValue(Last(s))

\* int(sidecar_data.get('number')): a decimal string or an int
IntOf(v) == IF v.t = "int" THEN v.v ELSE ParseDigits(v.v, 10)
\* int(rpc_block['block']['header']['number'], 16)
HexToInt(s) == ParseDigits(SubSeq(s, 3, Len(s)), 16)

(***************************************************************************)
(* Blocks as the two sources answer them                                   *)
(***************************************************************************)
Str_timestamp == <<"t", "i", "m", "e", "s", "t", "a", "m", "p">>
Str_set == <<"s", "e", "t">>
Str_parachainSystem ==
    <<"p", "a", "r", "a", "c", "h", "a", "i", "n", "S", "y", "s", "t", "e", "m">>
Str_setValidationData ==
    <<"s", "e", "t", "V", "a", "l", "i", "d", "a", "t", "i", "o", "n",
      "D", "a", "t", "a">>
Str_sudo == <<"s", "u", "d", "o">>
Str_balances == <<"b", "a", "l", "a", "n", "c", "e", "s">>
Str_transfer == <<"t", "r", "a", "n", "s", "f", "e", "r">>
Str_Timestamp == <<"T", "i", "m", "e", "s", "t", "a", "m", "p">>
Str_ParachainSystem ==
    <<"P", "a", "r", "a", "c", "h", "a", "i", "n", "S", "y", "s", "t", "e", "m">>
Str_set_validation_data ==
    <<"s", "e", "t", "_", "v", "a", "l", "i", "d", "a", "t", "i", "o", "n",
      "_", "d", "a", "t", "a">>
Str_Balances == <<"B", "a", "l", "a", "n", "c", "e", "s">>

\* One extrinsic of the sidecar's block: ext['method']['pallet'],
\* ext['method']['method'], ext['signature']['signer']['id'].
SidecarExt(pallet, method, signer) ==
    [method |-> [pallet |-> pallet, method |-> method],
     signature |-> IF signer = None THEN None
                   ELSE [signer |-> [id |-> signer]]]

\* One entry of rpc_block['block']['extrinsics']: what decode_scale makes of
\* it (or its failure to decode) and the signature mapping the code reads
\* from the entry itself (None when the entry has none to subscript, as is
\* the case of an unsigned extrinsic or of a bare hex string).
RpcExt(decodable, module, function, signer) ==
    [decodable |-> decodable,
     call |-> [call_module |-> module, call_function |-> function],
     signature |-> IF signer = None THEN None
                   ELSE [signer |-> [address |-> signer]]]

Alice == PyStr("5Alice")
Bob == PyStr("5Bob")

S_timestamp == SidecarExt(Str_timestamp, Str_set, None)
S_validation == SidecarExt(Str_parachainSystem, Str_setValidationData, None)
S_transfer == SidecarExt(Str_balances, Str_transfer, Alice)
SidecarExtrinsics == {S_timestamp, S_validation, S_transfer}

R_timestamp == RpcExt(TRUE, Str_Timestamp, Str_set, None)
R_validation == RpcExt(TRUE, Str_ParachainSystem, Str_set_validation_data, None)
R_transfer == RpcExt(TRUE, Str_Balances, Str_transfer, Alice)
R_transferBob == RpcExt(TRUE, Str_Balances, Str_transfer, Bob)
R_garbage == RpcExt(FALSE, <<>>, <<>>, None)
RpcExtrinsics == {R_timestamp, R_validation, R_transfer, R_transferBob, R_garbage}

SeqsUpTo(S, n) == UNION { [1..k -> S] : k \in 0..n }

SidecarBlock(hash, number, parent, state, root, exts) ==
    [hash |-> hash, number |-> number, parentHash |-> parent,
     stateRoot |-> state, extrinsicsRoot |-> root, extrinsics |-> exts]

\* Block 10 of the chain as the sidecar may report it: faithfully, with a
\* wrong number, with two wrong header fields, without hash, without number.
SidecarBlocksWith(exts) ==
    { SidecarBlock(PyStr("0xh"), PyStr(<<"1", "0">>), PyStr("0xp"), PyStr("0xs"), PyStr("0xe"), exts),
      SidecarBlock(PyStr("0xh"), PyStr(<<"1", "1">>), PyStr("0xp"), PyStr("0xs"), PyStr("0xe"), exts),
      SidecarBlock(PyStr("0xh"), PyStr(<<"1", "0">>), PyStr("0xq"), None, PyStr("0xe"), exts),
      SidecarBlock(None, PyStr(<<"1", "0">>), PyStr("0xp"), PyStr("0xs"), PyStr("0xe"), exts),
      SidecarBlock(PyStr("0xh"), None, PyStr("0xp"), PyStr("0xs"), PyStr("0xe"), exts) }

\* The result of chain_getBlock: block 10 of the chain.
RpcBlock(exts) ==
    [block |-> [header |-> [number |-> <<"0", "x", "a">>,
                            parentHash |-> PyStr("0xp"),
                            stateRoot |-> PyStr("0xs"),
                            extrinsicsRoot |-> PyStr("0xe")],
                extrinsics |-> exts]]

SidecarFetchError == HttpErrorMsg([status |-> 404, text |-> "not found"])

\* The pairs _fetch_sidecar_data can return for /blocks/{id}.
SidecarBlockAnswers(lists) ==
    {<<None, SidecarFetchError>>, <<None, None>>}
        \cup { <<b, None>> : b \in UNION { SidecarBlocksWith(x) : x \in lists } }

\* The pairs _fetch_substrate_rpc can return for chain_getBlock.
RpcBlockAnswers(lists) ==
    {<<None, RpcErrorMsg>>, <<None, None>>}
        \cup { <<RpcBlock(x), None>> : x \in lists }

(***************************************************************************)
(* _check_block                                                            *)
(***************************************************************************)
\* Python truthiness of an Optional value: `if sidecar_error:`,
\* `if not block_hash:`, `if sidecar_signature:`
Truthy(v) == v # None

\* Lines 101-109: "return_false", "raise" (sidecar_data is None and .get is
\* called on it) or "next".
SidecarStage(sa) ==
    IF Truthy(sa[2]) THEN "return_false"
    ELSE IF sa[1] = None THEN "raise"
    ELSE IF ~Truthy(sa[1].hash) THEN "return_false"
    ELSE "next"

\* Lines 112-115.
RpcStage(ra) == IF Truthy(ra[2]) THEN "return_false" ELSE "next"

\* The five base triples of lines 120-126.
BaseComparisonsM(sd, rb) ==
    << Comparison("Block Number", PyInt(IntOf(sd.number)),
                  PyInt(HexToInt(rb.block.header.number))),
       Comparison("Parent Hash", sd.parentHash, rb.block.header.parentHash),
       Comparison("State Root", sd.stateRoot, rb.block.header.stateRoot),
       Comparison("Extrinsics Root", sd.extrinsicsRoot,
                  rb.block.header.extrinsicsRoot) >>
BaseComparisons(sd, rb) ==
    << Comparison("Block Number", PyInt(IntOf(sd.number)),
                  PyInt(HexToInt(rb.block.header.number))),
       Comparison("Parent Hash", sd.parentHash, rb.block.header.parentHash),
       Comparison("State Root", sd.stateRoot, rb.block.header.stateRoot),
       Comparison("Extrinsics Root", sd.extrinsicsRoot,
                  rb.block.header.extrinsicsRoot),
       Comparison("Extrinsics count", PyInt(Len(sd.extrinsics)),
                  PyInt(Len(rb.block.extrinsics))) >>

\* The triples one loop iteration appends (lines 137-151).
OneExtrinsic(se, re) ==
    << NameComparison("Extrinsics - Pallet", se.method.pallet, re.call.call_module),
       NameComparison("Extrinsics - Method", se.method.method, re.call.call_function) >>
    \o IF Truthy(se.signature)
       THEN << Comparison("Extrinsics - Signer", se.signature.signer.id,
                          re.signature.signer.address) >>
       ELSE << >>

\* Iteration k of the loop raises: no entry k in the node's list
\* (IndexError, line 131), decode_scale fails (line 132), or the node's
\* entry has no signature to subscript (line 150).
IterationRaises(sexts, rexts, k) ==
    \/ k > Len(rexts)
    \/ ~rexts[k].decodable
    \/ Truthy(sexts[k].signature) /\ ~Truthy(rexts[k].signature)

\* Building the comparison list raises (lines 120-151).
BuildRaises(sd, rb) ==
    \/ rb = None
    \/ sd.number = None
    \/ \E k \in 1..Len(sd.extrinsics) :
          IterationRaises(sd.extrinsics, rb.block.extrinsics, k)

RECURSIVE ExtrinsicComparisons(_, _, _)
ExtrinsicComparisons(sexts, rexts, k) ==
    IF k > Len(sexts) THEN << >>
    ELSE OneExtrinsic(sexts[k], rexts[k])
            \o ExtrinsicComparisons(sexts, rexts, k + 1)

\* The list `comparisons` when the loop of line 129 has ended.
BuildComparisons(sd, rb) ==
    BaseComparisons(sd, rb)
        \o ExtrinsicComparisons(sd.extrinsics, rb.block.extrinsics, 1)

\* Lines 153-158: every triple is compared and logged, in order.
LogLines(cs) == [k \in 1..Len(cs) |-> [label |-> cs[k].label, ok |-> Matches(cs[k])]]
AllPassed(cs) == \A k \in 1..Len(cs) : Matches(cs[k])

Returned(b) == [status |-> "return", value |-> b]
Raised == [status |-> "raise", value |-> FALSE]

\* _check_block as a function of what the two fetches return.
CheckBlock(sa, ra) ==
    IF SidecarStage(sa) = "return_false" THEN Returned(FALSE)
    ELSE IF SidecarStage(sa) = "raise" THEN Raised
    ELSE IF RpcStage(ra) = "return_false" THEN Returned(FALSE)
    ELSE IF BuildRaises(sa[1], ra[1]) THEN Raised
    ELSE Returned(AllPassed(BuildComparisons(sa[1], ra[1])))

\* ---- _check_block step by step (SpecBlock)
BlockFetchSidecar ==
    /\ bpc = "start"
    /\ \E sa \in SidecarBlockAnswers(SeqsUpTo(SidecarExtrinsics, MaxExt)) :
        /\ b_sidecar' = sa
        /\ bpc' = CASE SidecarStage(sa) = "return_false" -> "done"
                    [] SidecarStage(sa) = "raise" -> "raised"
                    [] OTHER -> "rpc"
        /\ b_return' = IF SidecarStage(sa) = "return_false" THEN FALSE ELSE b_return
    /\ UNCHANGED <<b_rpc, comparisons, logged>>
    /\ UNCHANGED <<fetchVars, normVars, runVars>>

BlockFetchRpc ==
    /\ bpc = "rpc"
    /\ \E ra \in RpcBlockAnswers(SeqsUpTo(RpcExtrinsics, MaxExt)) :
        /\ b_rpc' = ra
        /\ bpc' = IF RpcStage(ra) = "return_false" THEN "done" ELSE "build"
        /\ b_return' = IF RpcStage(ra) = "return_false" THEN FALSE ELSE b_return
    /\ UNCHANGED <<b_sidecar, comparisons, logged>>
    /\ UNCHANGED <<fetchVars, normVars, runVars>>

BlockBuild ==
    /\ bpc = "build"
    /\ IF BuildRaises(b_sidecar[1], b_rpc[1])
       THEN bpc' = "raised" /\ UNCHANGED comparisons
       ELSE /\ comparisons' = BuildComparisons(b_sidecar[1], b_rpc[1])
            /\ bpc' = "compare"
    /\ UNCHANGED <<b_sidecar, b_rpc, logged, b_return>>
    /\ UNCHANGED <<fetchVars, normVars, runVars>>

BlockCompare ==
    /\ bpc = "compare"
    /\ logged' = LogLines(comparisons)
    /\ b_return' = AllPassed(comparisons)
    /\ bpc' = "done"
    /\ UNCHANGED <<b_sidecar, b_rpc, comparisons>>
    /\ UNCHANGED <<fetchVars, normVars, runVars>>

(***************************************************************************)
(* test_node_version, test_runtime_version, test_head_block                *)
(***************************************************************************)
NodeVersionRpcAnswers ==
    { <<PyStr("1.2.3"), None>>, <<None, None>>, <<None, RpcErrorMsg>> }
NodeVersionSidecarAnswers ==
    { <<[clientVersion |-> PyStr("1.2.3")], None>>,
      <<[clientVersion |-> PyStr("1.2.4")], None>>,
      <<None, None>>,
      <<None, SidecarFetchError>> }

\* test_node_version: ra from system_version, sa from /node/version.
TestNodeVersionResult(ra, sa) ==
    IF Truthy(ra[2]) THEN Returned(FALSE)
    ELSE IF Truthy(sa[2]) THEN Returned(FALSE)
    ELSE IF sa[1] = None THEN Raised
    ELSE Returned(PyEq(sa[1].clientVersion, ra[1]))

RuntimeSidecarAnswers ==
    { <<[specName |-> PyStr("node"), specVersion |-> PyStr("100"),
         transactionVersion |-> PyStr("1")], None>>,
      <<[specName |-> PyStr("node"), specVersion |-> PyStr("101"),
         transactionVersion |-> PyStr("1")], None>>,
      <<None, None>>,
      <<None, SidecarFetchError>> }
RuntimeRpcAnswers ==
    { <<[specName |-> PyStr("node"), specVersion |-> PyInt(100),
         transactionVersion |-> PyInt(1)], None>>,
      <<None, None>>,
      <<None, RpcErrorMsg>> }

\* str(x)
Str(x) ==
    IF x.t = "int" THEN PyStr(ToString(x.v))
    ELSE IF x.t = "none" THEN PyStr("None")
    ELSE x

RuntimeComparisons(sd, rd) ==
    << Comparison("Spec Name", sd.specName, rd.specName),
       Comparison("Spec Version", Str(sd.specVersion), Str(rd.specVersion)),
       Comparison("Transaction Version", Str(sd.transactionVersion),
                  Str(rd.transactionVersion)) >>

\* test_runtime_version: sa from /runtime/spec, ra from
\* state_getRuntimeVersion.
TestRuntimeVersionResult(sa, ra) ==
    IF Truthy(sa[2]) THEN Returned(FALSE)
    ELSE IF Truthy(ra[2]) THEN Returned(FALSE)
    ELSE IF sa[1] = None \/ ra[1] = None THEN Raised
    ELSE Returned(AllPassed(RuntimeComparisons(sa[1], ra[1])))

HeadListsSidecar == { << >>, <<S_timestamp>> }
HeadListsRpc == { << >>, <<R_timestamp>> }
FinalizedHeadAnswers ==
    { <<PyStr("0xh"), None>>, <<PyStr("0xg"), None>>, <<None, None>>,
      <<None, RpcErrorMsg>> }

HeadComparisons(sd, head_hash, rb) ==
    << Comparison("Block Number", PyInt(IntOf(sd.number)),
                  PyInt(HexToInt(rb.block.header.number))),
       Comparison("Block Hash", sd.hash, head_hash),
       Comparison("Parent Hash", sd.parentHash, rb.block.header.parentHash),
       Comparison("State Root", sd.stateRoot, rb.block.header.stateRoot),
       Comparison("Extrinsics Root", sd.extrinsicsRoot,
                  rb.block.header.extrinsicsRoot),
       Comparison("Extrinsics Count", PyInt(Len(sd.extrinsics)),
                  PyInt(Len(rb.block.extrinsics))) >>

\* test_head_block: sa from /blocks/head, ha from chain_getFinalizedHead,
\* ra from chain_getBlock.
TestHeadBlockResult(sa, ha, ra) ==
    IF Truthy(sa[2]) THEN Returned(FALSE)
    ELSE IF Truthy(ha[2]) THEN Returned(FALSE)
    ELSE IF Truthy(ra[2]) THEN Returned(FALSE)
    ELSE IF sa[1] = None \/ ra[1] = None THEN Raised
    ELSE IF sa[1].number = None THEN Raised
    ELSE Returned(AllPassed(HeadComparisons(sa[1], ha[1], ra[1])))

(***************************************************************************)
(* test_last_n_blocks_transactions                                         *)
(***************************************************************************)
S_sudo == SidecarExt(Str_parachainSystem, Str_sudo, None)
R_sudo == RpcExt(TRUE, Str_ParachainSystem, Str_sudo, None)

\* The extrinsic lists the sidecar and the node answer with during a run.
RunSidecarLists ==
    { << >>, <<S_validation, S_sudo>>, <<S_timestamp, S_transfer, S_transfer>> }
RunRpcLists ==
    { << >>, <<R_timestamp>>, <<R_validation, R_sudo>>,
      <<R_timestamp, R_transfer, R_transfer>>,
      <<R_timestamp, R_transfer, R_transferBob>> }

\* /blocks/head as test_last_n_blocks_transactions reads it: a fetch error,
\* a null body, a head without number, or a head of height 0..MaxHead.
HeadAnswers ==
    { <<None, SidecarFetchError>>, <<None, None>> }
        \cup { <<SidecarBlock(PyStr("0xh"), None, PyStr("0xp"), PyStr("0xs"),
                              PyStr("0xe"), << >>), None>> }
        \cup { <<SidecarBlock(PyStr("0xh"), PyStr(<<HexDigits[h + 1]>>), PyStr("0xp"),
                              PyStr("0xs"), PyStr("0xe"), << >>), None>>
               : h \in 0..MaxHead }

\* block_number = head_number - i
BlockNumber(head, k) == head - k

\* The loop index after a block that failed validation (`continue`).
AfterFailedBlockM(k, n) == n
AfterFailedBlock(k, n) == k + 1

\* not (pallet == 'timestamp' and method_name == 'set') and
\* not (pallet == 'parachainSystem' and method_name in ['setValidationData', 'sudo'])
CountsAsTransactionM(ext) ==
    ~(ext.method.pallet = Str_timestamp /\ ext.method.method = Str_set)
CountsAsTransaction(ext) ==
    /\ ~(ext.method.pallet = Str_timestamp /\ ext.method.method = Str_set)
    /\ ~(/\ ext.method.pallet = Str_parachainSystem
         /\ ext.method.method \in {Str_setValidationData, Str_sudo})

\* actual_transactions of one block
RECURSIVE ActualTransactions(_, _)
ActualTransactions(exts, k) ==
    IF k > Len(exts) THEN 0
    ELSE (IF CountsAsTransaction(exts[k]) THEN 1 ELSE 0)
            + ActualTransactions(exts, k + 1)

\* What block_log records of one iterated block: whether it passed, the
\* extrinsics of the block the sidecar answered with, and whether the
\* statistics counted them.
LogEntry(passed, exts, counted) ==
    [passed |-> passed, exts |-> exts, counted |-> counted]
SeenExtrinsics(sa) == IF sa[1] = None THEN << >> ELSE sa[1].extrinsics

\* The second fetch of a block (line 300): the sidecar answers with the
\* block it answered with before, or the fetch fails, or the body is null.
StatsAnswers(exts) ==
    {<<None, SidecarFetchError>>, <<None, None>>}
        \cup { <<b, None>> : b \in SidecarBlocksWith(exts) }

RunLocals == <<head_fetched, head_number, i, all_passed, total_transactions,
               total_extrinsics, block_number, validated, block_log>>

\* Lines 274-284.
LastNBegin ==
    /\ pc = "last_n"
    /\ \E ha \in HeadAnswers :
        IF Truthy(ha[2])
        THEN /\ test_results' = Append(test_results,
                    [name |-> "Last N Blocks Transactions", result |-> FALSE])
             /\ pc' = "summary"
             /\ UNCHANGED <<exc, RunLocals>>
        ELSE IF ha[1] = None \/ ha[1].number = None
        THEN /\ exc' = "Exception"
             /\ pc' = "raised"
             /\ UNCHANGED <<test_results, RunLocals>>
        ELSE /\ head_fetched' = TRUE
             /\ head_number' = IntOf(ha[1].number)
             /\ all_passed' = TRUE
             /\ total_transactions' = 0
             /\ total_extrinsics' = 0
             /\ i' = 0
             /\ pc' = "last_n_loop"
             /\ UNCHANGED <<exc, test_results, block_number, validated, block_log>>
    /\ UNCHANGED <<num_blocks, connected, run_return, exit_code>>
    /\ UNCHANGED <<fetchVars, normVars, blockVars>>

\* Lines 287-297: one iteration up to and including _check_block.
LastNCheckBlock ==
    /\ pc = "last_n_loop"
    /\ i < num_blocks
    /\ block_number' = BlockNumber(head_number, i)
    /\ validated' = Append(validated, BlockNumber(head_number, i))
    /\ \E sa \in SidecarBlockAnswers(RunSidecarLists),
          ra \in RpcBlockAnswers(RunRpcLists) :
        LET r == CheckBlock(sa, ra) IN
        IF r.status = "raise"
        THEN /\ exc' = "Exception"
             /\ pc' = "raised"
             /\ UNCHANGED <<i, all_passed, block_log>>
        ELSE IF ~r.value
        THEN /\ all_passed' = FALSE
             /\ i' = AfterFailedBlock(i, num_blocks)
             /\ block_log' = Append(block_log,
                    LogEntry(FALSE, SeenExtrinsics(sa), FALSE))
             /\ UNCHANGED <<pc, exc>>
        ELSE /\ block_log' = Append(block_log,
                    LogEntry(TRUE, SeenExtrinsics(sa), FALSE))
             /\ pc' = "last_n_stats"
             /\ UNCHANGED <<exc, i, all_passed>>
    /\ UNCHANGED <<num_blocks, connected, test_results, run_return, exit_code,
                   head_fetched, head_number, total_transactions,
                   total_extrinsics>>
    /\ UNCHANGED <<fetchVars, normVars, blockVars>>

\* Lines 300-317: the statistics of a block that passed.
LastNStats ==
    /\ pc = "last_n_stats"
    /\ \E sb \in StatsAnswers(Last(block_log).exts) :
        IF Truthy(sb[1])
        THEN /\ total_extrinsics' = total_extrinsics + Len(sb[1].extrinsics)
             /\ total_transactions' =
                    total_transactions + ActualTransactions(sb[1].extrinsics, 1)
             /\ block_log' = [block_log EXCEPT ![Len(block_log)] =
                    LogEntry(TRUE, sb[1].extrinsics, TRUE)]
        ELSE UNCHANGED <<total_extrinsics, total_transactions, block_log>>
    /\ i' = i + 1
    /\ pc' = "last_n_loop"
    /\ UNCHANGED <<num_blocks, connected, test_results, run_return, exit_code,
                   exc, head_fetched, head_number, all_passed, block_number,
                   validated>>
    /\ UNCHANGED <<fetchVars, normVars, blockVars>>

\* Lines 320-324: the loop has ended.
LastNReturn ==
    /\ pc = "last_n_loop"
    /\ i >= num_blocks
    /\ test_results' = Append(test_results,
            [name |-> "Last N Blocks Transactions", result |-> all_passed])
    /\ pc' = "summary"
    /\ UNCHANGED <<num_blocks, connected, run_return, exit_code, exc, RunLocals>>
    /\ UNCHANGED <<fetchVars, normVars, blockVars>>

(***************************************************************************)
(* run_tests and main                                                      *)
(***************************************************************************)
\* One of the first three checks: record its result, or let what it raised
\* propagate out of run_tests.
RunCheck(name, r, next) ==
    /\ IF r.status = "raise"
       THEN /\ exc' = "Exception"
            /\ pc' = "raised"
            /\ UNCHANGED test_results
       ELSE /\ test_results' = Append(test_results,
                    [name |-> name, result |-> r.value])
            /\ pc' = next
            /\ UNCHANGED exc
    /\ UNCHANGED <<num_blocks, connected, run_return, exit_code, RunLocals>>
    /\ UNCHANGED <<fetchVars, normVars, blockVars>>

\* if not self._connect_substrate(): return False
Connect ==
    /\ pc = "connect"
    /\ \E ok \in BOOLEAN :
        /\ connected' = ok
        /\ IF ok THEN pc' = "node_version" /\ UNCHANGED run_return
                 ELSE pc' = "returned" /\ run_return' = FALSE
    /\ UNCHANGED <<num_blocks, test_results, exit_code, exc, RunLocals>>
    /\ UNCHANGED <<fetchVars, normVars, blockVars>>

TestNodeVersion ==
    /\ pc = "node_version"
    /\ \E ra \in NodeVersionRpcAnswers, sa \in NodeVersionSidecarAnswers :
        RunCheck("Node Info", TestNodeVersionResult(ra, sa), "runtime_version")

TestRuntimeVersion ==
    /\ pc = "runtime_version"
    /\ \E sa \in RuntimeSidecarAnswers, ra \in RuntimeRpcAnswers :
        RunCheck("Runtime Version", TestRuntimeVersionResult(sa, ra), "head_block")

TestHeadBlock ==
    /\ pc = "head_block"
    /\ \E sa \in SidecarBlockAnswers(HeadListsSidecar),
          ha \in FinalizedHeadAnswers,
          ra \in RpcBlockAnswers(HeadListsRpc) :
        RunCheck("Head Block", TestHeadBlockResult(sa, ha, ra), "last_n")

\* passed_tests
PassedTests(results) ==
    Cardinality({ k \in 1..Len(results) : results[k].result })

\* return passed_tests == total_tests
RunTestsReturn(results) == PassedTests(results) = Len(results)

\* Lines 350-368.
Summary ==
    /\ pc = "summary"
    /\ run_return' = RunTestsReturn(test_results)
    /\ pc' = "returned"
    /\ UNCHANGED <<num_blocks, connected, test_results, exit_code, exc, RunLocals>>
    /\ UNCHANGED <<fetchVars, normVars, blockVars>>

\* sys.exit(0 if success else 1)
ExitStatusM(success) == 0
ExitStatus(success) == IF success THEN 0 ELSE 1

MainExit ==
    /\ pc = "returned"
    /\ exit_code' = PyInt(ExitStatus(run_return))
    /\ pc' = "exited"
    /\ UNCHANGED <<num_blocks, connected, test_results, run_return, exc, RunLocals>>
    /\ UNCHANGED <<fetchVars, normVars, blockVars>>

\* except KeyboardInterrupt / except Exception: sys.exit(1)
MainExcept ==
    /\ pc = "raised"
    /\ exit_code' = PyInt(1)
    /\ pc' = "exited"
    /\ UNCHANGED <<num_blocks, connected, test_results, run_return, exc, RunLocals>>
    /\ UNCHANGED <<fetchVars, normVars, blockVars>>

Running ==
    pc \in {"connect", "node_version", "runtime_version", "head_block",
            "last_n", "last_n_loop", "last_n_stats", "summary"}

\* The user interrupts the run: KeyboardInterrupt is no Exception, so no
\* handler below main catches it.
Interrupt ==
    /\ Running
    /\ exc' = "KeyboardInterrupt"
    /\ pc' = "raised"
    /\ UNCHANGED <<num_blocks, connected, test_results, run_return, exit_code,
                   RunLocals>>
    /\ UNCHANGED <<fetchVars, normVars, blockVars>>

(***************************************************************************)
(* Idle values of each group of variables                                  *)
(***************************************************************************)
FetchIdle ==
    /\ retry_attempts = 0 /\ fpc = "idle" /\ attempt = 0 /\ requests = 0
    /\ sleeps = 0 /\ responses = <<>> /\ fresult = <<>>
    /\ rpc_response = None /\ rresult = <<>>
NormIdle ==
    /\ npc = "idle" /\ sidecar_name = <<>> /\ rpc_name = <<>>
    /\ name_cmp = <<>>
BlockIdle ==
    /\ bpc = "idle" /\ b_sidecar = <<>> /\ b_rpc = <<>>
    /\ comparisons = <<>> /\ logged = <<>> /\ b_return = None
RunIdle ==
    /\ pc = "idle" /\ num_blocks = 0 /\ connected = FALSE
    /\ test_results = <<>> /\ run_return = FALSE /\ exit_code = None
    /\ exc = "none" /\ head_fetched = FALSE
    /\ head_number = 0 /\ i = 0 /\ all_passed = TRUE
    /\ total_transactions = 0 /\ total_extrinsics = 0
    /\ block_number = 0 /\ validated = <<>> /\ block_log = <<>>

(***************************************************************************)
(* SpecFetch                                                               *)
(***************************************************************************)
InitFetch ==
    /\ retry_attempts \in 0..MaxRetry
    /\ fpc = "for" /\ attempt = 0 /\ requests = 0 /\ sleeps = 0
    /\ responses = <<>> /\ fresult = <<>>
    /\ rpc_response = None /\ rresult = <<>>
    /\ NormIdle /\ BlockIdle /\ RunIdle

NextFetch == FetchIterate \/ FetchRequest \/ RpcRequest

SpecFetch == InitFetch /\ [][NextFetch]_vars

(***************************************************************************)
(* SpecNorm                                                                *)
(***************************************************************************)
InitNorm ==
    /\ npc = "start"
    /\ sidecar_name \in Names
    /\ rpc_name \in Names
    /\ name_cmp = <<>>
    /\ FetchIdle /\ BlockIdle /\ RunIdle

NextNorm == NormCompare

SpecNorm == InitNorm /\ [][NextNorm]_vars

(***************************************************************************)
(* Claims about the fetchers (SpecFetch)                                   *)
(***************************************************************************)
FetchDone == fpc = "done"
IsNon200(r) == r.kind = "http" /\ r.status # 200
AllNon200 == \A k \in 1..Len(responses) : IsNon200(responses[k])
FetchValue == fresult[1]
FetchError == fresult[2]

\* C1 as stated: for every retry_attempts R, when every attempt answers a
\* non-200 status the fetch returns no value, the error is the status and
\* body of the last attempt, and exactly R requests were issued.
C1_AsStated ==
    (FetchDone /\ AllNon200) =>
        /\ FetchValue = None
        /\ requests = retry_attempts
        /\ Len(responses) > 0
        /\ FetchError = HttpErrorMsg(Last(responses))

\* C1 amended: for R >= 1 the above holds; for R = 0 no request is issued
\* and the error is "Max retries exceeded".
C1_AllNon200ReturnsLastError ==
    (FetchDone /\ AllNon200) =>
        /\ FetchValue = None
        /\ requests = retry_attempts
        /\ Len(responses) = retry_attempts
        /\ IF retry_attempts >= 1
           THEN FetchError = HttpErrorMsg(Last(responses))
           ELSE FetchError = MaxRetriesExceeded

C1_Witness ==
    /\ FetchDone /\ AllNon200 /\ retry_attempts = 3 /\ requests = 3
    /\ responses[1].text = "boom" /\ responses[3].text = "bang"
    /\ FetchError.text = "bang"

\* C5: each fetcher returns exactly one of a value and an error
\* description, never both and never neither.
ExactlyOne(pair) == (pair[1] = None) # (pair[2] = None)
C5_ExactlyOneOfValueOrError ==
    /\ FetchDone => ExactlyOne(fresult)
    /\ rresult # <<>> => ExactlyOne(rresult)

Is200(r) == r.status = 200
Parses(r) == r.kind = "http" /\ r.status = 200
SleepsFor(k) == IF k = 0 THEN 0 ELSE k - 1

\* C10 as stated: the first HTTP 200 response ends the operation at once
\* with the parsed body and no error; k attempts sleep k-1 times; k never
\* exceeds retry_attempts.
C10_AsStated ==
    /\ requests <= retry_attempts
    /\ fpc \in {"for", "done"} => sleeps = SleepsFor(requests)
    /\ \A k \in 1..Len(responses) :
        Is200(responses[k]) =>
            /\ k = Len(responses)
            /\ FetchDone
            /\ fresult = <<responses[k].json, None>>

\* C10 amended: the first HTTP 200 response whose body parses as JSON ends
\* the operation at once with the parsed body and no error (a 200 whose
\* body does not parse counts as a failed attempt); a sleep precedes every
\* attempt but the first and none follows the last; k <= retry_attempts.
C10_RetryOrdering ==
    /\ requests <= retry_attempts
    /\ requests = Len(responses)
    /\ fpc \in {"for", "done"} => sleeps = SleepsFor(requests)
    /\ fpc = "get" => sleeps = requests
    /\ \A k \in 1..Len(responses) :
        Parses(responses[k]) =>
            /\ k = Len(responses)
            /\ FetchDone
            /\ fresult = <<responses[k].json, None>>
    /\ (FetchDone /\ FetchError = None) =>
            /\ Len(responses) > 0
            /\ Parses(Last(responses))

C10_Witness ==
    /\ FetchDone /\ requests = 3 /\ sleeps = 2
    /\ IsNon200(responses[1]) /\ responses[2].kind = "raise"
    /\ Parses(responses[3]) /\ FetchValue = JsonObject

(***************************************************************************)
(* Claims about the name normalisation (SpecNorm)                          *)
(***************************************************************************)
Normalize(s) == StripUnderscores(Lower(s))

\* C8: both sides are lowercased and stripped of underscores before the
\* equality, the normalisation is idempotent, and two names that differ
\* only in case and underscores match, whichever side carries them.
C8_BothSidesNormalized ==
    npc = "done" =>
        /\ name_cmp.sidecar = PyStr(Normalize(sidecar_name))
        /\ name_cmp.rpc = PyStr(Normalize(rpc_name))
        /\ Normalize(Normalize(sidecar_name)) = Normalize(sidecar_name)
        /\ Normalize(Normalize(rpc_name)) = Normalize(rpc_name)
        /\ (Normalize(sidecar_name) = Normalize(rpc_name)) => Matches(name_cmp)

(***************************************************************************)
(* SpecBlock                                                               *)
(***************************************************************************)
InitBlock ==
    /\ bpc = "start" /\ b_sidecar = <<>> /\ b_rpc = <<>>
    /\ comparisons = <<>> /\ logged = <<>> /\ b_return = None
    /\ FetchIdle /\ NormIdle /\ RunIdle

NextBlock == BlockFetchSidecar \/ BlockFetchRpc \/ BlockBuild \/ BlockCompare

SpecBlock == InitBlock /\ [][NextBlock]_vars

(***************************************************************************)
(* Claims about _check_block (SpecBlock)                                   *)
(***************************************************************************)
\* Both fetches returned a block.
BothFetched ==
    /\ b_sidecar # <<>> /\ b_rpc # <<>>
    /\ b_sidecar[1] # None /\ b_rpc[1] # None
SExts == b_sidecar[1].extrinsics
RExts == b_rpc[1].block.extrinsics
Min(a, b) == IF a < b THEN a ELSE b

\* The two blocks differ at most in the values of their fields and in the
\* lengths of their extrinsic lists: the number is present, every node
\* extrinsic decodes, and a signed sidecar extrinsic faces a signed one.
DifferOnlyInFields ==
    /\ BothFetched
    /\ b_sidecar[1].number # None
    /\ \A k \in 1..Min(Len(SExts), Len(RExts)) :
        /\ RExts[k].decodable
        /\ Truthy(SExts[k].signature) => Truthy(RExts[k].signature)

\* C6: once both blocks are fetched, a mismatch in any field, the
\* extrinsics count included, is not fatal: the validator does not raise,
\* every comparison of the set is evaluated and logged, and it returns
\* true iff every comparison matched.
C6_MismatchNotFatal ==
    DifferOnlyInFields =>
        /\ bpc # "raised"
        /\ bpc = "done" =>
            /\ Len(logged) = Len(comparisons)
            /\ Len(logged) >= 5
            /\ b_return = (\A k \in 1..Len(logged) : logged[k].ok)

SignedCount(sexts) ==
    Cardinality({ k \in 1..Len(sexts) : sexts[k].signature # None })

RECURSIVE ExpectedLabels(_, _)
ExpectedLabels(sexts, k) ==
    IF k > Len(sexts) THEN << >>
    ELSE <<"Extrinsics - Pallet", "Extrinsics - Method">>
         \o (IF sexts[k].signature # None THEN <<"Extrinsics - Signer">> ELSE << >>)
         \o ExpectedLabels(sexts, k + 1)

BaseLabels ==
    <<"Block Number", "Parent Hash", "State Root", "Extrinsics Root",
      "Extrinsics count">>

\* C7: with N extrinsics on both sides, S of the sidecar's signed, the
\* comparison set evaluated has exactly 5 + 2N + S entries: the five base
\* fields, then for each index in order pallet, method and (if signed)
\* signer.
C7_ComparisonCount ==
    (bpc \in {"compare", "done"} /\ BothFetched /\ Len(SExts) = Len(RExts)) =>
        /\ Len(comparisons) = 5 + 2 * Len(SExts) + SignedCount(SExts)
        /\ [k \in 1..Len(comparisons) |-> comparisons[k].label]
              = BaseLabels \o ExpectedLabels(SExts, 1)
        /\ bpc = "done" =>
              [k \in 1..Len(logged) |-> logged[k].label]
                 = BaseLabels \o ExpectedLabels(SExts, 1)

C7_Witness ==
    /\ bpc = "done" /\ BothFetched
    /\ Len(SExts) = 2 /\ Len(RExts) = 2 /\ SignedCount(SExts) = 1
    /\ Len(logged) = 10
    /\ logged[10].label = "Extrinsics - Signer"

(***************************************************************************)
(* Spec: one run of main, from the constructed tester to sys.exit          *)
(***************************************************************************)
Init ==
    /\ pc = "connect"
    /\ num_blocks \in 0..MaxBlocks
    /\ connected = FALSE /\ test_results = <<>> /\ run_return = FALSE
    /\ exit_code = None /\ exc = "none" /\ head_fetched = FALSE
    /\ head_number = 0 /\ i = 0 /\ all_passed = TRUE
    /\ total_transactions = 0 /\ total_extrinsics = 0
    /\ block_number = 0 /\ validated = <<>> /\ block_log = <<>>
    /\ FetchIdle /\ NormIdle /\ BlockIdle

Next ==
    \/ Connect
    \/ TestNodeVersion
    \/ TestRuntimeVersion
    \/ TestHeadBlock
    \/ LastNBegin
    \/ LastNCheckBlock
    \/ LastNStats
    \/ LastNReturn
    \/ Summary
    \/ MainExit
    \/ MainExcept
    \/ Interrupt

Spec == Init /\ [][Next]_vars

(***************************************************************************)
(* Claims about run_tests and main (Spec)                                  *)
(***************************************************************************)
CheckNames ==
    <<"Node Info", "Runtime Version", "Head Block", "Last N Blocks Transactions">>
ResultNames == [k \in 1..Len(test_results) |-> test_results[k].name]
AllChecksPassed ==
    Len(test_results) = 4 /\ \A k \in 1..4 : test_results[k].result

\* C2: once the node connection succeeds, whatever happens inside the
\* checks (the user not interrupting), the four checks run in the fixed
\* order, the results list ends with one entry per check, and the run
\* result is true only if all four are true.
C2_FourResultsAlways ==
    (pc = "exited" /\ connected /\ exc # "KeyboardInterrupt") =>
        /\ ResultNames = CheckNames
        /\ run_return => AllChecksPassed

LastNReturned == head_fetched /\ Len(test_results) = 4

IsInherent(ext) ==
    \/ ext.method.pallet = Str_timestamp /\ ext.method.method = Str_set
    \/ /\ ext.method.pallet = Str_parachainSystem
       /\ ext.method.method \in {Str_setValidationData, Str_sudo}
NonInherents(exts) ==
    Cardinality({ k \in 1..Len(exts) : ~IsInherent(exts[k]) })

RECURSIVE Sum(_)
Sum(ns) == IF ns = << >> THEN 0 ELSE ns[1] + Sum(Tail(ns))

\* The number of sidecar extrinsics of a logged block.
BlockExtrinsics(e) == Len(e.exts)
CountedExtrinsics(e) == IF e.counted THEN Len(e.exts) ELSE 0
CountedTransactions(e) == IF e.counted THEN NonInherents(e.exts) ELSE 0

\* C9 as stated: every iterated block adds its number of sidecar
\* extrinsics to total_extrinsics and its non-inherents to
\* total_transactions, so total_extrinsics is the sum over all N blocks.
C9_AsStated ==
    LastNReturned =>
        /\ total_extrinsics = Sum([k \in 1..Len(block_log) |-> BlockExtrinsics(block_log[k])])
        /\ total_transactions <= total_extrinsics

\* C9 amended: only a block that passed validation, and whose second fetch
\* for the statistics returned a body, adds that body's number of
\* extrinsics to total_extrinsics and its number of non-inherents to
\* total_transactions; a block that failed validation adds nothing;
\* total_transactions <= total_extrinsics.
C9_StatisticsOfPassedBlocks ==
    head_fetched =>
        /\ total_extrinsics
              = Sum([k \in 1..Len(block_log) |-> CountedExtrinsics(block_log[k])])
        /\ total_transactions
              = Sum([k \in 1..Len(block_log) |-> CountedTransactions(block_log[k])])
        /\ total_transactions <= total_extrinsics
        /\ \A k \in 1..Len(block_log) :
              block_log[k].counted => block_log[k].passed

C9_Witness ==
    /\ LastNReturned /\ num_blocks = 2
    /\ ~block_log[1].passed /\ Len(block_log[1].exts) = 3
    /\ block_log[2].counted
    /\ block_log[2].exts = <<S_timestamp, S_transfer, S_transfer>>
    /\ total_extrinsics = 3 /\ total_transactions = 2

====
